---- MODULE Spec2Model ----
(***************************************************************************)
(* Note-path resolution of the tree service (tab_context.js, second half): *)
(* resolveNotePath, resolveNotePathToSegments and getSomeNotePath, run     *)
(* against the cached note graph (treeCache).                              *)
(*                                                                         *)
(* Strings are sequences of characters.  A note id is one character        *)
(* ("root", "A", ...), so a path string such as root/A/B-t is the          *)
(* sequence <<"root", "/", "A", "/", "B", "-", "t">>; split, trim, join    *)
(* and reverse work on these sequences as the JavaScript methods work on   *)
(* strings and arrays.                                                     *)
(***************************************************************************)
EXTENDS Naturals, Sequences, FiniteSets

\* ------------------------------------------------------------------ bounds
MaxSegs == 3        \* segments in a raw path handed to the resolver
MaxParents == 2     \* parent branches of one note
MaxBranches == 3    \* branches in the cache

\* ------------------------------------------------------- notes and strings
Root == "root"
Notes == {"root", "A", "B", "C"}          \* notes present in the cache
\* ids tried as path segments: "Z" is an id no note carries; "C" comes into
\* a result through the cache only
SegChars == {"root", "A", "B", "Z"}
TabSuffix == <<"-", "t">>                 \* "-" followed by a tab id

Undefined == [ok |-> FALSE, val |-> <<>>]
Value(v) == [ok |-> TRUE, val |-> v]

RECURSIVE ReverseSeq(_)
ReverseSeq(s) ==
    IF s = <<>> THEN <<>> ELSE Append(ReverseSeq(Tail(s)), Head(s))

\* String.prototype.split(sep): the pieces between occurrences of sep;
\* "".split(sep) is [""], a trailing sep yields a trailing "".
RECURSIVE SplitAcc(_, _, _, _)
SplitAcc(s, sep, cur, acc) ==
    IF s = <<>> THEN Append(acc, cur)
    ELSE IF Head(s) = sep THEN SplitAcc(Tail(s), sep, <<>>, Append(acc, cur))
    ELSE SplitAcc(Tail(s), sep, Append(cur, Head(s)), acc)

Split(s, sep) == SplitAcc(s, sep, <<>>, <<>>)

\* String.prototype.trim(): drops white space at both ends.
RECURSIVE TrimLeft(_)
TrimLeft(s) ==
    IF s # <<>> /\ Head(s) = " " THEN TrimLeft(Tail(s)) ELSE s

Trim(s) == ReverseSeq(TrimLeft(ReverseSeq(TrimLeft(s))))

\* Array.prototype.join(sep)
RECURSIVE Join(_, _)
Join(segs, sep) ==
    IF segs = <<>> THEN <<>>
    ELSE IF Len(segs) = 1 THEN segs[1]
    ELSE segs[1] \o <<sep>> \o Join(Tail(segs), sep)

\* Array.prototype.includes
Includes(arr, x) == \E k \in 1..Len(arr) : arr[k] = x

\* --------------------------------------------------------------- the cache
VARIABLES parents,   \* treeCache: note id -> its parent note ids, in order
          op,        \* the operation whose outcome the record below holds
          arg,       \* the raw path of the last resolve call, in its parts
          st,        \* resolveNotePathToSegments: its locals and outcome
          ret,       \* value returned by resolveNotePath
          someNote,  \* argument of the last direct getSomeNotePath call
          someOut    \* its outcome

\* The tab context (tab_context.js, first half), the message subscriber
\* and the migration run (migrate), each with its own variables.
VARIABLES stale,     \* cache updates applied while a resolution is suspended
          nav,       \* what the message subscriber handed to the tab manager
          tab,       \* TabContext: notePath, noteId, time on the current path
          calls,     \* the setNote calls in progress, by call slot
          issued,    \* the slots of the overlapping calls, in call order
          timers,    \* pending setTimeout callbacks of setNote
          evt,       \* the last event triggered by the tab
          posted,    \* the last 'recent-notes' post
          reload,    \* the entitiesReloadedEvent handler in progress
          deleted,   \* notes the cache holds with isDeleted set
          mig,       \* migrate(): its locals and position
          db         \* the database: dbVersion option, foreign keys, backups

resolveVars == <<op, arg, st, ret, someNote, someOut>>
tabVars == <<tab, calls, issued, timers, evt, posted, reload, deleted>>
migVars == <<mig, db>>
restVars == <<stale, nav, tabVars, migVars>>

vars == <<parents, resolveVars, restVars>>

\* treeCache.getNote(noteId): the cached note, undefined for an unknown id.
\* A note id is a one-character string.
getNote(noteId) ==
    IF Len(noteId) = 1 /\ noteId[1] \in Notes THEN Value(noteId[1])
    ELSE Undefined

\* NoteShort.getParentNotes(): the parent notes, in branch order.
getParentNotes(graph, note) == graph[note]

\* ----------------------------------------------------------- getSomeNotePath
\* parents[0] taken as parents[last]
LastParent(ps) == ps[Len(ps)]

\* parents[0]
FirstParent(ps) == ps[1]

NoWalk == [kind |-> "none", val |-> <<>>, cur |-> Root, path |-> <<>>]

\* someStep with the check for a parentless note left out: the ids pushed so
\* far are returned as if root had been reached.
someStepNoOrphanCheck(graph, w) ==
    IF w.cur = Root \/ Len(getParentNotes(graph, w.cur)) = 0
      THEN [w EXCEPT !.kind = "path",
                     !.val = Join(ReverseSeq(Append(w.path, <<w.cur>>)), "/")]
      ELSE [w EXCEPT !.path = Append(w.path, <<w.cur>>),
                     !.cur = FirstParent(getParentNotes(graph, w.cur))]

\* Lines 226-241: the loop test and one iteration, or the code after the
\* loop when cur is root.
someStep(graph, w) ==
    IF w.cur = Root
      THEN [w EXCEPT !.kind = "path",
                     !.val = Join(ReverseSeq(Append(w.path, <<Root>>)), "/")]
    ELSE IF Len(getParentNotes(graph, w.cur)) = 0
      THEN [w EXCEPT !.kind = "undefined"]
    ELSE [w EXCEPT !.path = Append(w.path, <<w.cur>>),
                   !.cur = FirstParent(getParentNotes(graph, w.cur))]

\* The loop run to its end.  cur is a function of the previous cur alone, so
\* once more ids were pushed than there are notes some note was visited twice
\* and the loop never exits: that outcome is "hang".
RECURSIVE SomeWalk(_, _)
SomeWalk(graph, w) ==
    IF w.kind # "loop" THEN w
    ELSE IF Len(w.path) > Cardinality(Notes) THEN [w EXCEPT !.kind = "hang"]
    ELSE SomeWalk(graph, someStep(graph, w))

getSomeNotePath(graph, note) ==
    LET w == SomeWalk(graph, [NoWalk EXCEPT !.kind = "loop", !.cur = note])
    IN  [kind |-> w.kind, val |-> w.val]

\* ------------------------------------------------ resolveNotePathToSegments
\* Locals of one call.  pc: "loop" while the while(true) loop runs,
\* "returned" after return effectivePath.reverse(), "undefined" after a bare
\* return, "hang" when the call never returns.  lookups, accepted, brokeAt
\* and fallback record what the call did: the ids passed to
\* treeCache.getNote, effectivePath as it was when the parent test failed,
\* the value of i there, and what getSomeNotePath gave.
NoCall ==
    [pc |-> "idle", notePath |-> <<>>, path |-> <<>>, effectivePath |-> <<>>,
     hasChild |-> FALSE, childNoteId |-> <<>>, i |-> 1, result |-> <<>>,
     lookups |-> <<>>, accepted |-> <<>>, brokeAt |-> 0, fallback |-> "none"]

\* the tab suffix left in place
StripNothing(rawPath) == Trim(rawPath)

\* notePath.split("-")[0].trim()
StripTabSuffix(rawPath) == Trim(Split(rawPath, "-")[1])

\* 'root' pushed without the includes test
ReversedPathRootPushed(notePath) ==
    Append(ReverseSeq(Split(notePath, "/")), <<Root>>)

\* notePath.split("/").reverse(), with 'root' pushed when it is missing
ReversedPath(notePath) ==
    LET path == ReverseSeq(Split(notePath, "/"))
    IN  IF Includes(path, <<Root>>) THEN path ELSE Append(path, <<Root>>)

\* resolveStart without the test for an empty path
resolveStartNoEmptyCheck(rawPath) ==
    [NoCall EXCEPT !.pc = "loop", !.notePath = StripTabSuffix(rawPath),
                   !.path = ReversedPath(StripTabSuffix(rawPath))]

\* Lines 146-164: everything before the loop.
resolveStart(rawPath) ==
    LET notePath == StripTabSuffix(rawPath)
    IN  IF Len(notePath) = 0
          THEN [NoCall EXCEPT !.pc = "undefined"]
          ELSE [NoCall EXCEPT !.pc = "loop", !.notePath = notePath,
                              !.path = ReversedPath(notePath)]

\* parents.some(p => p.noteId === parentNoteId)
SomeParentIs(ps, parentNoteId) ==
    \E k \in 1..Len(ps) : <<ps[k]>> = parentNoteId

\* repair without the break: the loop goes on after the splice, with the
\* parent named by the path accepted as lines 212-213 accept it
repairNoBreak(graph, s, ps) ==
    LET someNotePath == getSomeNotePath(graph, FirstParent(ps))
        parentNoteId == s.path[s.i - 1]
        broken == [s EXCEPT !.accepted = s.effectivePath, !.brokeAt = s.i,
                            !.fallback = someNotePath.kind]
        pathToRoot == IF someNotePath.kind = "path"
                        THEN ReverseSeq(Split(someNotePath.val, "/"))
                        ELSE <<>>
    IN  IF someNotePath.kind = "hang"
          THEN [broken EXCEPT !.pc = "hang"]
          ELSE [broken EXCEPT
                  !.effectivePath =
                      Append(s.effectivePath \o pathToRoot, parentNoteId),
                  !.hasChild = TRUE, !.childNoteId = parentNoteId]

\* Lines 198-208: the parent named by the path is not a parent of the child.
repair(graph, s, ps) ==
    LET someNotePath == getSomeNotePath(graph, FirstParent(ps))
        broken == [s EXCEPT !.accepted = s.effectivePath, !.brokeAt = s.i,
                            !.fallback = someNotePath.kind]
    IN  IF someNotePath.kind = "hang"
          THEN [broken EXCEPT !.pc = "hang"]
        ELSE IF someNotePath.kind = "path"
          THEN LET pathToRoot == ReverseSeq(Split(someNotePath.val, "/"))
                   eff == s.effectivePath \o pathToRoot
               IN  [broken EXCEPT !.pc = "returned", !.effectivePath = eff,
                                  !.result = ReverseSeq(eff)]
        ELSE [broken EXCEPT !.pc = "returned",
                            !.result = ReverseSeq(s.effectivePath)]

\* Lines 212-213: the parent is accepted and becomes the next child.
accept(s, parentNoteId) ==
    [s EXCEPT !.effectivePath = Append(s.effectivePath, parentNoteId),
              !.hasChild = TRUE, !.childNoteId = parentNoteId]

\* resolveStep without the test for a child that has no parents: the parent
\* named by the path is accepted
resolveStepOrphanAccepted(graph, s) ==
    IF s.i > Len(s.path)
      THEN [s EXCEPT !.pc = "returned", !.result = ReverseSeq(s.effectivePath)]
    ELSE
      LET parentNoteId == s.path[s.i]
          s1 == [s EXCEPT !.i = s.i + 1]
      IN  IF ~s.hasChild THEN accept(s1, parentNoteId)
          ELSE
            LET child == getNote(s.childNoteId)
                s2 == [s1 EXCEPT !.lookups = Append(s.lookups, s.childNoteId)]
            IN  IF ~child.ok THEN [s2 EXCEPT !.pc = "undefined"]
                ELSE
                  LET ps == getParentNotes(graph, child.val)
                  IN  IF Len(ps) # 0 /\ ~SomeParentIs(ps, parentNoteId)
                        THEN repair(graph, s2, ps)
                      ELSE accept(s2, parentNoteId)

\* Lines 166-214: one iteration of the loop; s.i counts from 1.
resolveStep(graph, s) ==
    IF s.i > Len(s.path)
      THEN [s EXCEPT !.pc = "returned", !.result = ReverseSeq(s.effectivePath)]
    ELSE
      LET parentNoteId == s.path[s.i]
          s1 == [s EXCEPT !.i = s.i + 1]
      IN  IF ~s.hasChild THEN accept(s1, parentNoteId)
          ELSE
            LET child == getNote(s.childNoteId)
                s2 == [s1 EXCEPT !.lookups = Append(s.lookups, s.childNoteId)]
            IN  IF ~child.ok THEN [s2 EXCEPT !.pc = "undefined"]
                ELSE
                  LET ps == getParentNotes(graph, child.val)
                  IN  IF Len(ps) = 0 THEN [s2 EXCEPT !.pc = "undefined"]
                      ELSE IF ~SomeParentIs(ps, parentNoteId)
                        THEN repair(graph, s2, ps)
                      ELSE accept(s2, parentNoteId)

RECURSIVE resolveRun(_, _)
resolveRun(graph, s) ==
    IF s.pc # "loop" THEN s ELSE resolveRun(graph, resolveStep(graph, s))

resolveNotePathToSegments(graph, rawPath) ==
    resolveRun(graph, resolveStart(rawPath))

\* Lines 133-137: runPath ? runPath.join("/") : null
resolveNotePath(s) ==
    IF s.pc = "returned" THEN [kind |-> "string", val |-> Join(s.result, "/")]
    ELSE IF s.pc = "undefined" THEN [kind |-> "null", val |-> <<>>]
    ELSE [kind |-> "hang", val |-> <<>>]

NoReturn == [kind |-> "none", val |-> <<>>]

\* ------------------------------------------------------------------ inputs
SegLists == UNION {[1..k -> SegChars] : k \in 0..MaxSegs}
PathOf(segs) == Join([k \in 1..Len(segs) |-> <<segs[k]>>], "/")
Pads == {<<>>, <<" ">>}
Suffixes == {<<>>, TabSuffix}
NoArg == [segs |-> <<>>, pad |-> <<>>, suf |-> <<>>]
\* white space is tried after the paths of at most one segment
RawArgs == {a \in [segs : SegLists, pad : Pads, suf : Suffixes] :
               a.pad = <<>> \/ Len(a.segs) <= 1}

\* the string handed to resolveNotePath: the segments joined by "/", then
\* white space, then the tab suffix
RawPath(a) == PathOf(a.segs) \o a.pad \o a.suf

\* ----------------------------------------------------------------- actions
BranchCount(graph) ==
    Len(graph["A"]) + Len(graph["B"]) + Len(graph["C"]) + Len(graph[Root])

InsertAt(seq, pos, x) ==
    SubSeq(seq, 1, pos - 1) \o <<x>> \o SubSeq(seq, pos, Len(seq))

RemoveParent(seq, x) == SelectSeq(seq, LAMBDA y : y # x)

Cleared ==
    /\ op' = "idle"
    /\ arg' = NoArg
    /\ st' = NoCall
    /\ ret' = NoReturn
    /\ someNote' = Root
    /\ someOut' = [kind |-> "none", val |-> <<>>]

\* A branch parent -> child arrives in the cache at position pos among the
\* child's parents.  Changes are applied between calls: one thread runs
\* both, and a call here runs to its return.
CreateBranch(parent, child, pos) ==
    /\ op = "idle"
    /\ child # Root
    /\ parent # child
    /\ ~Includes(parents[child], parent)
    /\ Len(parents[child]) < MaxParents
    /\ BranchCount(parents) < MaxBranches
    /\ pos \in 1..(Len(parents[child]) + 1)
    /\ parents' = [parents EXCEPT ![child] = InsertAt(@, pos, parent)]
    /\ UNCHANGED <<resolveVars, restVars>>

\* The branch parent -> child leaves the cache.
DeleteBranch(parent, child) ==
    /\ op = "idle"
    /\ Includes(parents[child], parent)
    /\ parents' = [parents EXCEPT ![child] = RemoveParent(@, parent)]
    /\ UNCHANGED <<resolveVars, restVars>>

\* resolveNotePath(rawPath), run to its return against the current cache.
ResolveNotePath(a) ==
    /\ op = "idle"
    /\ op' = "resolve"
    /\ arg' = a
    /\ st' = resolveNotePathToSegments(parents, RawPath(a))
    /\ ret' = resolveNotePath(st')
    /\ UNCHANGED <<parents, someNote, someOut, restVars>>

\* getSomeNotePath(note), called directly (it is exported).
GetSomeNotePath(note) ==
    /\ op = "idle"
    /\ op' = "some"
    /\ someNote' = note
    /\ someOut' = getSomeNotePath(parents, note)
    /\ UNCHANGED <<parents, arg, st, ret, restVars>>

\* The caller has the value the call returned; the next operation starts
\* from the cache alone.
Return ==
    /\ op # "idle"
    /\ Cleared
    /\ UNCHANGED <<parents, restVars>>

\* A string-valued field: undefined before it is first set, null, or a string.
Unset == [kind |-> "undefined", val |-> <<>>]
Null == [kind |-> "null", val |-> <<>>]
Str(v) == [kind |-> "string", val |-> v]

\* One setNote call: not in progress.
NoSetNote ==
    [pc |-> "idle", input |-> NoArg, trigger |-> TRUE, notePath |-> Null,
     outcome |-> "none"]

CallSlots == 1..2

\* The last step triggered no event and posted nothing; no entitiesReloaded
\* event is being handled.
NoEvent == [name |-> "none", notePath |-> Null]
NoPost == [sent |-> FALSE, notePath |-> Null, noteId |-> Null, stayed |-> TRUE]
NoReload == [pc |-> "idle", reloaded |-> {}, noteId |-> Unset]

\* migrate() not started.
NoMigrate ==
    [pc |-> "idle", currentDbVersion |-> 0, migrations |-> <<>>, idx |-> 1,
     broke |-> FALSE, ran |-> <<>>]

\* Nothing has happened yet in the tab, the subscriber or the migration.
InitIdle ==
    /\ stale = [updates |-> 0, dirty |-> 0]
    /\ nav = [received |-> 0, last |-> [type |-> "none", noteId |-> Root],
              sink |-> <<>>, shown |-> FALSE]
    /\ tab = [notePath |-> Unset, noteId |-> Unset]
    /\ calls = [c \in CallSlots |-> NoSetNote]
    /\ issued = <<>>
    /\ timers = <<>>
    /\ evt = NoEvent
    /\ posted = NoPost
    /\ reload = NoReload
    /\ deleted = {}
    /\ mig = NoMigrate

\* A database at version 0 with an empty migrations directory.
InitRest ==
    /\ InitIdle
    /\ db = [dbVersion |-> 0, fk |-> "ON", backups |-> 0, dir |-> <<>>]

\* The cache of the scenario: root -> A, root -> C, A -> B.
InitCache ==
    /\ parents = [n \in Notes |->
                    IF n = "A" THEN <<Root>>
                    ELSE IF n = "C" THEN <<Root>>
                    ELSE IF n = "B" THEN <<"A">>
                    ELSE <<>>]
    /\ op = "idle"
    /\ arg = NoArg
    /\ st = NoCall
    /\ ret = NoReturn
    /\ someNote = Root
    /\ someOut = [kind |-> "none", val |-> <<>>]

Init == InitCache /\ InitRest

Next ==
    \/ \E p \in Notes, c \in Notes, pos \in 1..(MaxParents + 1) :
          CreateBranch(p, c, pos)
    \/ \E p \in Notes, c \in Notes : DeleteBranch(p, c)
    \/ \E a \in RawArgs : ResolveNotePath(a)
    \/ \E n \in Notes : GetSomeNotePath(n)
    \/ Return

Spec == Init /\ [][Next]_vars

\* ------------------------------------------------------------ the claims
\* Vocabulary of the claims, stated on the cache itself.
IsNoteId(seg) == Len(seg) = 1 /\ seg[1] \in Notes

\* a branch parent -> child exists; both are id strings
IsBranch(parent, child) ==
    /\ IsNoteId(parent)
    /\ IsNoteId(child)
    /\ \E k \in 1..Len(parents[child[1]]) : parents[child[1]][k] = parent[1]

\* the note k first-parent steps above n; "none" past root or a parentless note
RECURSIVE Ancestor(_, _)
Ancestor(n, k) ==
    IF k = 0 THEN n
    ELSE LET m == Ancestor(n, k - 1)
         IN  IF m = "none" \/ m = Root \/ parents[m] = <<>> THEN "none"
             ELSE parents[m][1]

Steps == 0..Cardinality(Notes)

ChainReachesRoot(n) == \E k \in Steps : Ancestor(n, k) = Root

ChainReachesOrphan(n) ==
    \E k \in Steps : LET m == Ancestor(n, k)
                     IN  m \in Notes \ {Root} /\ parents[m] = <<>>

ChainEntersCycle(n) ==
    \E j \in Steps, k \in Steps \ {0} :
        LET m == Ancestor(n, j)
        IN  m \in Notes \ {Root} /\ Ancestor(m, k) = m

\* segs, root first, is a NotePath of the cache that ends at target
IsNotePath(segs, target) ==
    /\ Len(segs) >= 1
    /\ segs[1] = <<Root>>
    /\ segs[Len(segs)] = target
    /\ \A k \in 1..(Len(segs) - 1) : IsBranch(segs[k], segs[k + 1])

\* the last call resolved a path without white space or tab suffix
PlainCall == op = "resolve" /\ arg.pad = <<>> /\ arg.suf = <<>>

ValidRootFirst(segs) ==
    /\ Len(segs) >= 1
    /\ segs[1] = Root
    /\ \A k \in 1..(Len(segs) - 1) : IsBranch(<<segs[k]>>, <<segs[k + 1]>>)

\* C1: resolving a root-first path whose consecutive pairs are all branches
\* of the cache returns that very path.
C1_Idempotence ==
    PlainCall /\ ValidRootFirst(arg.segs)
        => ret = [kind |-> "string", val |-> PathOf(arg.segs)]

C1_Witness ==
    PlainCall /\ ValidRootFirst(arg.segs) /\ Len(arg.segs) = 3

\* C2: every sequence resolveNotePathToSegments returns is a NotePath of the
\* cache: root first, the target of the raw path last, a branch under every
\* consecutive pair.
C2_ReturnsNotePath ==
    op = "resolve" /\ st.pc = "returned" => IsNotePath(st.result, st.path[1])

\* The walk of the last call, read off the code's reversed path (target
\* first, 'root' pushed when missing): the walk gets as far as position k
\* when every pair below it is a branch, and it breaks there when the note
\* at k - 1 has parents and the id at k is none of them.
WalkReaches(k) ==
    \A j \in 2..(k - 1) : IsBranch(st.path[j], st.path[j - 1])

BreaksAt(k) ==
    /\ op = "resolve"
    /\ k \in 2..Len(st.path)
    /\ WalkReaches(k)
    /\ IsNoteId(st.path[k - 1])
    /\ parents[st.path[k - 1][1]] # <<>>
    /\ ~IsBranch(st.path[k], st.path[k - 1])

\* res reaches the note at position pos through that note's first parent and
\* the first parents above it, up to root at position 1
ThroughFirstParents(res, pos) ==
    /\ pos > 1
    /\ pos <= Len(res)
    /\ res[1] = <<Root>>
    /\ \A j \in 1..(pos - 1) :
          /\ IsNoteId(res[j + 1])
          /\ parents[res[j + 1][1]] # <<>>
          /\ res[j] = <<parents[res[j + 1][1]][1]>>

ScenarioBefore ==
    parents = [n \in Notes |->
                 IF n = "A" \/ n = "C" THEN <<Root>>
                 ELSE IF n = "B" THEN <<"A">> ELSE <<>>]

ScenarioAfter ==
    parents = [n \in Notes |->
                 IF n = "A" \/ n = "C" THEN <<Root>>
                 ELSE IF n = "B" THEN <<"C">> ELSE <<>>]

\* C3: when the path names a parent the child does not have, and the child
\* has parents, the path returned keeps the segments from the child down and
\* reaches the child through its first parent and the first-parent chain up
\* to root; in the scenario "A/B" resolves to [root, A, B] before the move
\* of B and to [root, C, B] after it.
C3_RepairCorrectness ==
    /\ \A k \in 2..Len(st.path) :
          BreaksAt(k) /\ st.pc = "returned" =>
              LET res == st.result
                  pos == Len(res) - (k - 1) + 1
              IN  /\ ThroughFirstParents(res, pos)
                  /\ SubSeq(res, pos, Len(res))
                        = ReverseSeq(SubSeq(st.path, 1, k - 1))
    /\ PlainCall /\ arg.segs = <<"A", "B">> /\ ScenarioBefore
          => st.pc = "returned" /\ st.result = <<<<Root>>, <<"A">>, <<"B">>>>
    /\ PlainCall /\ arg.segs = <<"A", "B">> /\ ScenarioAfter
          => st.pc = "returned" /\ st.result = <<<<Root>>, <<"C">>, <<"B">>>>

\* C4: getSomeNotePath called on a note whose first-parent chain enters a
\* cycle without root returns, and returns failure.
C4_CycleSafety ==
    op = "some" /\ ChainEntersCycle(someNote) => someOut.kind = "undefined"

\* C5: getSomeNotePath called on a note whose first-parent chain reaches a
\* parentless note other than root returns failure, not a path.
C5_OrphanDetection ==
    op = "some" /\ ChainReachesOrphan(someNote)
        => someOut = [kind |-> "undefined", val |-> <<>>]

C5_Witness ==
    /\ op = "some"
    /\ ChainReachesOrphan(someNote)
    /\ parents[someNote] # <<>>

\* C6: for a note whose first-parent chain reaches root, getSomeNotePath
\* returns the "/"-joined ids that start with root, end with the note, each
\* one the first parent of the one after it.
C6_FallbackPath ==
    op = "some" /\ ChainReachesRoot(someNote) =>
        /\ someOut.kind = "path"
        /\ \E n \in 1..(Cardinality(Notes) + 1) :
              \E ids \in [1..n -> Notes] :
                  /\ someOut.val = PathOf(ids)
                  /\ ids[1] = Root
                  /\ ids[n] = someNote
                  /\ \A k \in 1..(n - 1) :
                        /\ parents[ids[k + 1]] # <<>>
                        /\ ids[k] = parents[ids[k + 1]][1]

C6_Witness ==
    /\ op = "some"
    /\ ChainReachesRoot(someNote)
    /\ Ancestor(someNote, 2) = Root
    /\ Len(parents[someNote]) = 2

\* C7: a tab suffix changes nothing: resolving P followed by "-" and a tab
\* id returns what resolving P returns on the same cache, and no character
\* of the suffix is in the result.
C7_SuffixStripping ==
    op = "resolve" /\ arg.suf = TabSuffix =>
        /\ ret = resolveNotePath(
                    resolveNotePathToSegments(parents,
                                              PathOf(arg.segs) \o arg.pad))
        /\ \A k \in 1..Len(ret.val) : ret.val[k] \notin {"-", "t"}

C7_Witness ==
    /\ op = "resolve"
    /\ arg.suf = TabSuffix
    /\ Len(arg.segs) = 3
    /\ ret.kind = "string"

\* C8: a raw path that is empty once the tab suffix and the white space are
\* gone ("", " ", "-t", " -t") fails without a single note lookup, and
\* resolveNotePath returns null.
C8_EmptyInput ==
    op = "resolve" /\ arg.segs = <<>> =>
        /\ st.pc = "undefined"
        /\ st.lookups = <<>>
        /\ ret = [kind |-> "null", val |-> <<>>]

C8_Witness ==
    op = "resolve" /\ arg.segs = <<>> /\ arg.suf = TabSuffix /\ arg.pad # <<>>

\* the walk reaches position k of the reversed path, and the id there is a
\* note without parents that has a further segment above it
OrphanAt(k) ==
    /\ op = "resolve"
    /\ k \in 1..(Len(st.path) - 1)
    /\ WalkReaches(k + 1)
    /\ IsNoteId(st.path[k])
    /\ parents[st.path[k][1]] = <<>>

\* C9: when the walk comes to an accepted note that has no parents while a
\* segment is still above it, resolveNotePathToSegments returns no sequence
\* and resolveNotePath returns null.
C9_OrphanInWalk ==
    \A k \in 1..Len(st.path) :
        OrphanAt(k) => st.pc = "undefined" /\ ret.kind = "null"

C9_Witness ==
    \E k \in 2..Len(st.path) : OrphanAt(k)

\* the fallback path of the first parent of note c, as segments; none when
\* the first-parent chain does not reach root
FallbackSegments(c) ==
    LET some == getSomeNotePath(parents, parents[c][1])
    IN  IF some.kind = "path" THEN Split(some.val, "/") ELSE <<>>

MaxVersion == 3     \* highest version a migration file carries
MaxFiles == 3       \* files in the migrations directory

\* A file of the migrations directory: the version of its name and its
\* extension; "txt" stands for a name the pattern of line 18 does not match.
Versions == 1..MaxVersion
FileTypes == {"sql", "js", "txt"}
Files == [version : Versions, type : FileTypes]

\* the directory as readdirSync lists it: any order, one file per version
Dirs == {d \in UNION {[1..k -> Files] : k \in 0..MaxFiles} :
            \A i, j \in 1..Len(d) : i # j => d[i].version # d[j].version}

\* Line 18: file.match(/([0-9]{4})__([a-zA-Z0-9_ ]+)\.(sql|js)/)
Matches(file) == file.type \in {"sql", "js"}

\* Lines 17-37: the records pushed, in directory order.
RECURSIVE Collected(_, _)
Collected(dir, currentDbVersion) ==
    IF dir = <<>> THEN <<>>
    ELSE LET file == Head(dir)
             rest == Collected(Tail(dir), currentDbVersion)
         IN  IF Matches(file) /\ file.version > currentDbVersion
               THEN <<[dbVersion |-> file.version, type |-> file.type,
                       success |-> "unset"]>> \o rest
               ELSE rest

RECURSIVE InsertSorted(_, _)
InsertSorted(sorted, m) ==
    IF sorted = <<>> THEN <<m>>
    ELSE IF m.dbVersion < Head(sorted).dbVersion THEN <<m>> \o sorted
    ELSE <<Head(sorted)>> \o InsertSorted(Tail(sorted), m)

RECURSIVE SortedFrom(_, _)
SortedFrom(sorted, ms) ==
    IF ms = <<>> THEN sorted
    ELSE SortedFrom(InsertSorted(sorted, Head(ms)), Tail(ms))

\* the records left in the order of the directory
Unsorted(ms) == ms

\* Line 39: migrations.sort((a, b) => a.dbVersion - b.dbVersion)
SortByVersion(ms) == SortedFrom(<<>>, ms)

\* the transaction leaves the new dbVersion behind when the script throws
transactionalNoRollback(d, version, outcome) ==
    [d EXCEPT !.dbVersion = version]

\* Lines 48-68: sql.transactional.  The script and setOption("dbVersion")
\* commit together or not at all.
transactional(d, version, outcome) ==
    IF outcome = "commit" THEN [d EXCEPT !.dbVersion = version] ELSE d

\* PRAGMA foreign_keys = ON placed after the try statement: the break of
\* the catch block skips it
foreignKeysAfterTry(fk, broke) == IF broke THEN fk ELSE "ON"

\* Lines 82-85: the finally block runs on every way out of the try.
foreignKeysFinally(fk, broke) == "ON"

Mark(m, k, value) ==
    [m EXCEPT !.migrations[k].success = value]

\* Line 13: await backupService.backupNow()
MigrateBackup ==
    /\ mig.pc = "idle"
    /\ db' = [db EXCEPT !.backups = 1]
    /\ mig' = [mig EXCEPT !.pc = "backedUp"]
    /\ UNCHANGED <<parents, resolveVars, stale, nav, tabVars>>

\* Lines 15-39: the stored version is read, the directory listed, the
\* records filtered and sorted.
MigrateCollect ==
    /\ mig.pc = "backedUp"
    /\ LET ms == SortByVersion(Collected(db.dir, db.dbVersion))
       IN  mig' = [mig EXCEPT !.currentDbVersion = db.dbVersion,
                              !.migrations = ms, !.idx = 1,
                              !.pc = IF ms = <<>> THEN "finish" ELSE "off"]
    /\ UNCHANGED <<parents, resolveVars, stale, nav, tabVars, db>>

\* Line 46: PRAGMA foreign_keys = OFF; when the statement throws, the catch
\* block marks the record and breaks.
MigratePragmaOff(ok) ==
    /\ mig.pc = "off"
    /\ IF ok
         THEN /\ db' = [db EXCEPT !.fk = "OFF"]
              /\ mig' = [mig EXCEPT !.pc = "transaction"]
         ELSE /\ db' = db
              /\ mig' = [Mark(mig, mig.idx, "false") EXCEPT
                            !.broke = TRUE, !.pc = "finally"]
    /\ UNCHANGED <<parents, resolveVars, stale, nav, tabVars>>

\* Lines 48-81: the transaction commits and the record is marked successful,
\* or it throws and the catch block marks the record and breaks.
MigrateTransaction(outcome) ==
    /\ mig.pc = "transaction"
    /\ LET m == mig.migrations[mig.idx]
           result == IF m.type \in {"sql", "js"} THEN outcome ELSE "throw"
       IN  /\ db' = transactional(db, m.dbVersion, result)
           /\ mig' = [Mark(mig, mig.idx,
                           IF result = "commit" THEN "true" ELSE "false")
                        EXCEPT !.ran = Append(mig.ran, m.dbVersion),
                               !.broke = (result # "commit"),
                               !.pc = "finally"]
    /\ UNCHANGED <<parents, resolveVars, stale, nav, tabVars>>

\* Lines 82-86: the finally block, then the break or the next migration.
MigratePragmaOn ==
    /\ mig.pc = "finally"
    /\ db' = [db EXCEPT !.fk = foreignKeysFinally(db.fk, mig.broke)]
    /\ mig' = [mig EXCEPT
                 !.idx = IF mig.broke THEN mig.idx ELSE mig.idx + 1,
                 !.pc = IF mig.broke \/ mig.idx = Len(mig.migrations)
                          THEN "finish" ELSE "off"]
    /\ UNCHANGED <<parents, resolveVars, stale, nav, tabVars>>

\* Lines 88-92: the connection is initialised when the database is up to
\* date, and the records are returned.
MigrateFinish ==
    /\ mig.pc = "finish"
    /\ mig' = [mig EXCEPT !.pc = "returned"]
    /\ UNCHANGED <<parents, resolveVars, stale, nav, tabVars, db>>

\* Any directory and any stored version; foreign keys are enforced.
InitMigrate ==
    /\ InitCache
    /\ InitIdle
    /\ db \in [dbVersion : 0..MaxVersion, fk : {"ON"}, backups : {0},
               dir : Dirs]

NextMigrate ==
    \/ MigrateBackup
    \/ MigrateCollect
    \/ \E ok \in BOOLEAN : MigratePragmaOff(ok)
    \/ \E outcome \in {"commit", "throw"} : MigrateTransaction(outcome)
    \/ MigratePragmaOn
    \/ MigrateFinish

SpecMigrate == InitMigrate /\ [][NextMigrate]_vars

\* the records a migration was attempted for
Attempted == {k \in 1..Len(mig.migrations) :
                 mig.migrations[k].success # "unset"}

\* C16: foreign keys are ON again after every migration attempt, committed
\* or thrown: ON when the next migration is about to switch them OFF, ON
\* when the loop is left and when migrate returns after an attempt.
C16_ForeignKeysBackOn ==
    /\ Attempted # {} /\ mig.pc \in {"off", "finish", "returned"}
          => db.fk = "ON"

C16_Witness ==
    /\ mig.pc = "returned"
    /\ \E k \in Attempted : mig.migrations[k].success = "true"
    /\ \E k \in Attempted : mig.migrations[k].success = "false"
    /\ Len(mig.ran) = 2

\* migrate has returned and one of its migrations threw
ReturnedAfterThrow ==
    /\ mig.pc = "returned"
    /\ \E k \in Attempted : mig.migrations[k].success = "false"

\* the version of the last record marked successful, the starting version
\* when there is none
LastSuccessful ==
    LET done == {k \in Attempted : mig.migrations[k].success = "true"}
    IN  IF done = {} THEN mig.currentDbVersion
        ELSE LET last == CHOOSE k \in done : \A j \in done : j <= k
             IN  mig.migrations[last].dbVersion

\* no migration above the one that threw was executed, and the stored
\* dbVersion is the one of the last migration that succeeded
StoppedAtThrow ==
    \E f \in 1..Len(mig.migrations) :
        /\ mig.migrations[f].success = "false"
        /\ \A k \in 1..Len(mig.ran) :
              mig.ran[k] <= mig.migrations[f].dbVersion
        /\ db.dbVersion = LastSuccessful

\* C19 as stated: after a throw the returned records are records marked
\* success=true followed by exactly one marked success=false, and nothing
\* else.
C19_PrefixThenOneFailure ==
    ReturnedAfterThrow =>
        /\ StoppedAtThrow
        /\ LET n == Len(mig.migrations)
           IN  /\ mig.migrations[n].success = "false"
               /\ \A k \in 1..(n - 1) : mig.migrations[k].success = "true"

\* C19, amended: after a throw no higher migration ran, the stored
\* dbVersion is the one of the last successful migration (the starting one
\* when none succeeded), and the returned records are records marked
\* success=true, then exactly one marked success=false, then the migrations
\* that were never attempted, which carry no success mark.
C19_StopOnFailure ==
    ReturnedAfterThrow =>
        /\ StoppedAtThrow
        /\ \E f \in 1..Len(mig.migrations) :
              /\ mig.migrations[f].success = "false"
              /\ \A k \in 1..(f - 1) : mig.migrations[k].success = "true"
              /\ \A k \in (f + 1)..Len(mig.migrations) :
                    mig.migrations[k].success = "unset"

C19_Witness ==
    /\ ReturnedAfterThrow
    /\ Len(mig.migrations) = 3
    /\ mig.migrations[1].success = "true"
    /\ mig.migrations[2].success = "false"

Ascending(versions) ==
    \A k \in 1..(Len(versions) - 1) : versions[k] < versions[k + 1]

\* C20: the backup is taken before any migration is executed, only
\* migrations above the dbVersion stored at the start are executed, in
\* ascending order of version, and the stored dbVersion never decreases.
C20_MigrationOrdering ==
    /\ [](/\ mig.pc \in {"off", "transaction", "finally"} => db.backups = 1
          /\ mig.ran # <<>> => db.backups = 1
          /\ \A k \in 1..Len(mig.ran) : mig.ran[k] > mig.currentDbVersion
          /\ Ascending(mig.ran))
    /\ [][db.dbVersion' >= db.dbVersion]_vars

C20_Witness ==
    /\ mig.pc = "returned"
    /\ Len(mig.ran) = 2
    /\ Len(db.dir) = 3
    /\ db.dir[1].version > db.dir[2].version
    /\ db.dbVersion > mig.currentDbVersion
    /\ mig.currentDbVersion > 0

\* ================================================= the message subscriber
MaxMessages == 2    \* messages delivered to the subscriber

MessageTypes == {"open-note", "sync"}
Messages == [type : MessageTypes, noteId : Notes]

\* every message forwarded, whatever its type
forwardedAnyType(message) == <<message.noteId>>

\* Lines 249-250: the arguments of the calls of
\* appContext.tabManager.activateOrOpenNote made for one message.
forwarded(message) ==
    IF message.type = "open-note" THEN <<message.noteId>> ELSE <<>>

\* Lines 248-258: the callback given to ws.subscribeToMessages, run for one
\* message; electron says whether utils.isElectron() holds.
ReceiveMessage(message, electron) ==
    /\ nav.received < MaxMessages
    /\ nav' = [received |-> nav.received + 1,
               last |-> message,
               sink |-> nav.sink \o forwarded(message),
               shown |-> nav.shown \/ (message.type = "open-note" /\ electron)]
    /\ UNCHANGED <<parents, resolveVars, stale, tabVars, migVars>>

\* Messages arrive between the updates of the cache.
NextMessages ==
    \/ \E p \in Notes, c \in Notes, pos \in 1..(MaxParents + 1) :
          CreateBranch(p, c, pos)
    \/ \E p \in Notes, c \in Notes : DeleteBranch(p, c)
    \/ \E message \in Messages, electron \in BOOLEAN :
          ReceiveMessage(message, electron)

SpecMessages == Init /\ [][NextMessages]_vars

\* C12: the subscriber hands an 'open-note' message to activateOrOpenNote
\* with the noteId of the message and nothing else, a message of another
\* type leads to no call, and no message changes the cache.
C12_OpenNoteForwarded ==
    [][nav.received' # nav.received =>
          /\ parents' = parents
          /\ nav.sink' = IF nav.last'.type = "open-note"
                           THEN Append(nav.sink, nav.last'.noteId)
                           ELSE nav.sink]_vars

C12_Witness ==
    /\ nav.received = 2
    /\ Len(nav.sink) = 1
    /\ nav.last.type = "open-note"
    /\ nav.last.noteId = "B"

\* ========================================== resolution with interleaving
\* resolveNotePathToSegments awaits treeCache.getNote in every iteration
\* that has a child (line 174); whatever else is scheduled runs while the
\* call is suspended there, updates of the cache included.  The code before
\* the await of an iteration reads nothing of the cache, so an update during
\* the await is an update between two runs of resolveStep.  The first
\* iteration and the one that leaves the loop have no await: they run in
\* one piece with what comes before them.
MaxUpdates == 2     \* cache updates applied while calls are suspended

\* paths without white space or tab suffix
PlainArgs == {a \in RawArgs : a.pad = <<>> /\ a.suf = <<>>}

\* the iterations run from s up to the next await of line 174
RECURSIVE runToAwait(_, _)
runToAwait(graph, s) ==
    IF s.pc = "loop" /\ (~s.hasChild \/ s.i > Len(s.path))
      THEN runToAwait(graph, resolveStep(graph, s))
      ELSE s

\* Lines 133-134 and 146-174: the call starts and runs up to its first
\* await, or to its return when it has none.
ResolveBegin(a) ==
    /\ op = "idle"
    /\ arg' = a
    /\ LET s == runToAwait(parents, resolveStart(RawPath(a)))
       IN  /\ st' = s
           /\ op' = IF s.pc = "loop" THEN "resolving" ELSE "resolve"
           /\ ret' = IF s.pc = "loop" THEN NoReturn ELSE resolveNotePath(s)
    /\ stale' = [stale EXCEPT !.dirty = 0]
    /\ UNCHANGED <<parents, someNote, someOut, nav, tabVars, migVars>>

\* Lines 174-216 and 136: the call resumes with the note fetched, finishes
\* the iteration against the cache as it is now, and either suspends at the
\* next fetch or returns.
ResolveResume ==
    /\ op = "resolving"
    /\ LET s == runToAwait(parents, resolveStep(parents, st))
       IN  /\ st' = s
           /\ op' = IF s.pc = "loop" THEN "resolving" ELSE "resolve"
           /\ ret' = IF s.pc = "loop" THEN NoReturn ELSE resolveNotePath(s)
    /\ UNCHANGED <<parents, arg, someNote, someOut, restVars>>

\* A branch arrives in the cache while the call is suspended.
InterleavedCreateBranch(parent, child, pos) ==
    /\ op = "resolving"
    /\ stale.updates < MaxUpdates
    /\ child # Root
    /\ parent # child
    /\ ~Includes(parents[child], parent)
    /\ Len(parents[child]) < MaxParents
    /\ BranchCount(parents) < MaxBranches
    /\ pos \in 1..(Len(parents[child]) + 1)
    /\ parents' = [parents EXCEPT ![child] = InsertAt(@, pos, parent)]
    /\ stale' = [updates |-> stale.updates + 1, dirty |-> stale.dirty + 1]
    /\ UNCHANGED <<resolveVars, nav, tabVars, migVars>>

\* A branch leaves the cache while the call is suspended.
InterleavedDeleteBranch(parent, child) ==
    /\ op = "resolving"
    /\ stale.updates < MaxUpdates
    /\ Includes(parents[child], parent)
    /\ parents' = [parents EXCEPT ![child] = RemoveParent(@, parent)]
    /\ stale' = [updates |-> stale.updates + 1, dirty |-> stale.dirty + 1]
    /\ UNCHANGED <<resolveVars, nav, tabVars, migVars>>

\* The caller has the value the call returned.
ResolveReturn ==
    /\ op = "resolve"
    /\ Cleared
    /\ stale' = [stale EXCEPT !.dirty = 0]
    /\ UNCHANGED <<parents, nav, tabVars, migVars>>

NextInterleaved ==
    \/ \E a \in PlainArgs : ResolveBegin(a)
    \/ ResolveResume
    \/ \E p \in Notes, c \in Notes, pos \in 1..(MaxParents + 1) :
          InterleavedCreateBranch(p, c, pos)
    \/ \E p \in Notes, c \in Notes : InterleavedDeleteBranch(p, c)
    \/ ResolveReturn

SpecInterleaved == Init /\ [][NextInterleaved]_vars

\* C11: a resolution during which the cache was updated returns no path put
\* together from the cache before and after the update: it starts over, so a
\* sequence it returns is the one an undisturbed resolution of the same raw
\* path gives on the cache as it is at the return, and otherwise it fails.
C11_NoStalePath ==
    op = "resolve" /\ stale.dirty > 0 /\ st.pc = "returned" =>
        LET fresh == resolveNotePathToSegments(parents, RawPath(arg))
        IN  fresh.pc = "returned" /\ fresh.result = st.result

\* ============================================================ TabContext
\* One tab: setNote (lines 27-73), the timer it starts (lines 52-60) and
\* entitiesReloadedEvent (lines 105-119).  Every await of the code is a
\* point where the other calls, the timers and the handlers of the tab run.
TimerDelay == 5     \* the delay of the timer of setNote, in seconds
MaxTimers == 3      \* timers pending at once

\* everything but the tab
otherVars == <<parents, resolveVars, stale, nav, migVars>>

\* the paths given to setNote: two notes of the cache and an unknown note
TabInputs ==
    {a \in RawArgs : /\ a.pad = <<>>
                     /\ a.suf = <<>>
                     /\ a.segs \in {<<"A">>, <<"A", "B">>, <<"Z">>}}

\* the id taken from the first segment instead of the last
noteIdFromFirstSegment(notePath) ==
    IF notePath.kind # "string" \/ notePath.val = <<>> THEN Null
    ELSE Str(Split(Split(notePath.val, "/")[1], "-")[1])

\* Lines 264-275.
getNoteIdFromNotePath(notePath) ==
    IF notePath.kind # "string" \/ notePath.val = <<>> THEN Null
    ELSE LET path == Split(notePath.val, "/")
             lastSegment == path[Len(path)]
         IN  Str(Split(lastSegment, "-")[1])

\* afterResolve without the return for a path that is the current one
afterResolveNoSameCheck(notePath, current) ==
    IF notePath.kind # "string" \/ notePath.val = <<>> THEN "unresolved"
    ELSE "access"

\* Lines 30-37: what setNote does with the resolved path.
afterResolve(notePath, current) ==
    IF notePath.kind # "string" \/ notePath.val = <<>> THEN "unresolved"
    ELSE IF notePath = current THEN "same"
    ELSE "access"

\* Line 54: notePath && notePath === this.notePath
timerPosts(notePath, current) ==
    notePath.kind = "string" /\ notePath.val # <<>> /\ notePath = current

\* loadResults.isNoteReloaded(noteId)
isNoteReloaded(reloaded, noteId) ==
    noteId.kind = "string" /\ Len(noteId.val) = 1 /\ noteId.val[1] \in reloaded

\* the handler nulls the fields whatever the note is
isDeletedAlways(noteId) == TRUE

\* Lines 107-109: note.isDeleted of the note fetched for noteId.
isDeleted(noteId) ==
    getNote(noteId.val).ok /\ getNote(noteId.val).val \in deleted

\* What is left of a call that has returned: the path it resolved and how it
\* ended.
Done(notePath, outcome) ==
    [NoSetNote EXCEPT !.pc = "done", !.notePath = notePath,
                      !.outcome = outcome]

\* the pending timers once the path of the tab is current: a timer whose
\* path the tab has left is marked
Marked(ts, current) ==
    [k \in 1..Len(ts) |->
        [ts[k] EXCEPT !.stayed = ts[k].stayed /\ ts[k].notePath = current]]

InProgress(c) == calls[c].pc \in {"resolve", "access", "before"}

\* Line 27-28: setNote is called and suspends in resolveNotePath.  The
\* second slot holds a call made while the first is suspended.
SetNoteCall(c, a, trigger) ==
    /\ calls[c].pc = "idle"
    /\ c = Len(issued) + 1
    /\ \A d \in CallSlots : d < c => InProgress(d)
    /\ Len(timers) + Cardinality({d \in CallSlots : InProgress(d)}) < MaxTimers
    /\ calls' = [calls EXCEPT ![c] =
                    [NoSetNote EXCEPT !.pc = "resolve", !.input = a,
                                      !.trigger = trigger]]
    /\ issued' = Append(issued, c)
    /\ evt' = NoEvent
    /\ posted' = NoPost
    /\ UNCHANGED <<otherVars, tab, timers, reload, deleted>>

\* Lines 28-39: the resolution is back; the call returns for no path and
\* for the current path, and otherwise suspends in checkNoteAccess.
SetNoteResolved(c) ==
    /\ calls[c].pc = "resolve"
    /\ LET notePath == resolveNotePath(
                           resolveNotePathToSegments(parents,
                                                     RawPath(calls[c].input)))
           next == afterResolve(notePath, tab.notePath)
       IN  /\ notePath.kind # "hang"
           /\ calls' = [calls EXCEPT ![c] =
                 IF next = "access"
                   THEN [@ EXCEPT !.pc = "access", !.notePath = notePath]
                   ELSE Done(notePath, next)]
    /\ evt' = NoEvent
    /\ posted' = NoPost
    /\ UNCHANGED <<otherVars, tab, issued, timers, reload, deleted>>

\* Lines 39-43: the access check is back; the call returns for false and
\* otherwise triggers beforeNoteSwitch and suspends in it.
SetNoteAccess(c, granted) ==
    /\ calls[c].pc = "access"
    /\ IF granted
         THEN /\ calls' = [calls EXCEPT ![c] = [@ EXCEPT !.pc = "before"]]
              /\ evt' = [name |-> "beforeNoteSwitch", notePath |-> Null]
         ELSE /\ calls' = [calls EXCEPT ![c] =
                             Done(calls[c].notePath, "refused")]
              /\ evt' = NoEvent
    /\ posted' = NoPost
    /\ UNCHANGED <<otherVars, tab, issued, timers, reload, deleted>>

\* Lines 45-72: the fields are written, the timer is started and
\* tabNoteSwitched is triggered if asked for.
SetNoteSwitch(c) ==
    /\ calls[c].pc = "before"
    /\ LET notePath == calls[c].notePath
       IN  /\ tab' = [notePath |-> notePath,
                      noteId |-> getNoteIdFromNotePath(notePath)]
           /\ timers' = Append(Marked(timers, notePath),
                               [notePath |-> notePath, left |-> TimerDelay,
                                stayed |-> TRUE])
           /\ evt' = IF calls[c].trigger
                       THEN [name |-> "tabNoteSwitched", notePath |-> notePath]
                       ELSE NoEvent
    /\ calls' = [calls EXCEPT ![c] = Done(calls[c].notePath, "switched")]
    /\ posted' = NoPost
    /\ UNCHANGED <<otherVars, issued, reload, deleted>>

\* The promises of all the calls made are settled.
SetNoteReturn ==
    /\ \A c \in CallSlots : ~InProgress(c)
    /\ \E c \in CallSlots : calls[c].pc = "done"
    /\ calls' = [c \in CallSlots |-> NoSetNote]
    /\ issued' = <<>>
    /\ evt' = NoEvent
    /\ posted' = NoPost
    /\ UNCHANGED <<otherVars, tab, timers, reload, deleted>>

\* One second passes; a timer that is due runs first.
Tick ==
    /\ timers # <<>>
    /\ \A k \in 1..Len(timers) : timers[k].left > 0
    /\ timers' = [k \in 1..Len(timers) |->
                     [timers[k] EXCEPT !.left = @ - 1]]
    /\ evt' = NoEvent
    /\ posted' = NoPost
    /\ UNCHANGED <<otherVars, tab, calls, issued, reload, deleted>>

\* Lines 52-60: the callback of the oldest timer runs.
TimerFire ==
    /\ timers # <<>>
    /\ Head(timers).left = 0
    /\ posted' = IF timerPosts(Head(timers).notePath, tab.notePath)
                   THEN [sent |-> TRUE, notePath |-> tab.notePath,
                         noteId |-> tab.noteId,
                         stayed |-> Head(timers).stayed]
                   ELSE NoPost
    /\ timers' = Tail(timers)
    /\ evt' = NoEvent
    /\ UNCHANGED <<otherVars, tab, calls, issued, reload, deleted>>

\* The cached note is marked isDeleted.
MarkDeleted(note) ==
    /\ note \in {"A"} \ deleted
    /\ deleted' = deleted \union {note}
    /\ evt' = NoEvent
    /\ posted' = NoPost
    /\ UNCHANGED <<otherVars, tab, calls, issued, timers, reload>>

\* Lines 105-107: entitiesReloadedEvent is called; for the note of the tab
\* it suspends in treeCache.getNote(this.noteId).
EntitiesReloaded(reloaded) ==
    /\ reload.pc = "idle"
    /\ reload' = IF isNoteReloaded(reloaded, tab.noteId)
                   THEN [pc |-> "fetch", reloaded |-> reloaded,
                         noteId |-> tab.noteId]
                   ELSE NoReload
    /\ evt' = NoEvent
    /\ posted' = NoPost
    /\ UNCHANGED <<otherVars, tab, calls, issued, timers, deleted>>

\* Lines 107-118: the note is back; for a deleted note both fields are
\* nulled and tabNoteSwitched is triggered.
ReloadFetched ==
    /\ reload.pc = "fetch"
    /\ reload' = NoReload
    /\ IF isDeleted(reload.noteId)
         THEN /\ tab' = [notePath |-> Null, noteId |-> Null]
              /\ evt' = [name |-> "tabNoteSwitched", notePath |-> Null]
              /\ timers' = Marked(timers, Null)
         ELSE /\ evt' = NoEvent
              /\ UNCHANGED <<tab, timers>>
    /\ posted' = NoPost
    /\ UNCHANGED <<otherVars, calls, issued, deleted>>

NextTab ==
    \/ \E c \in CallSlots, a \in TabInputs, trigger \in BOOLEAN :
          SetNoteCall(c, a, trigger)
    \/ \E c \in CallSlots : SetNoteResolved(c)
    \/ \E c \in CallSlots, granted \in BOOLEAN : SetNoteAccess(c, granted)
    \/ \E c \in CallSlots : SetNoteSwitch(c)
    \/ SetNoteReturn
    \/ Tick
    \/ TimerFire
    \/ \E note \in Notes : MarkDeleted(note)
    \/ \E reloaded \in {{"A"}, {"B"}} : EntitiesReloaded(reloaded)
    \/ ReloadFetched

SpecTab == Init /\ [][NextTab]_vars

\* ------------------------------------------------------- claims C13-C18
\* the step is one of call c and changes what the tab shows: its fields,
\* an event triggered, a timer started
ShowsChange(c) ==
    /\ calls'[c] # calls[c]
    /\ \/ tab' # tab
       \/ evt'.name # "none"
       \/ Len(timers') > Len(timers)

\* the step is one of call c and leaves the tab as it is
LeavesTab == tab' = tab /\ evt'.name = "none" /\ timers' = timers

\* C13: setNote writes notePath and noteId, triggers beforeNoteSwitch or
\* tabNoteSwitched and starts a timer only after the input resolved to a
\* path that is not null and not the current notePath and the access check
\* did not answer false; a call whose resolution failed, whose path is the
\* current one or whose access was refused returns and leaves notePath and
\* noteId as they are, triggers no event and starts no timer.
C13_SetNoteFrame ==
    [][\A c \in CallSlots :
          /\ ShowsChange(c) => calls[c].pc \in {"access", "before"}
          /\ calls[c].pc = "resolve" /\ calls'[c].pc = "access" =>
                /\ calls'[c].notePath.kind = "string"
                /\ calls'[c].notePath # tab.notePath
          /\ calls[c].pc = "resolve" /\ calls'[c].pc = "done" =>
                /\ LeavesTab
                /\ \/ /\ calls'[c].outcome = "unresolved"
                      /\ calls'[c].notePath.kind = "null"
                   \/ /\ calls'[c].outcome = "same"
                      /\ calls'[c].notePath = tab.notePath
          /\ calls[c].pc = "access" /\ calls'[c].pc = "done" =>
                LeavesTab /\ calls'[c].outcome = "refused"
          /\ calls[c].pc = "access" /\ calls'[c].pc = "before" =>
                tab' = tab /\ timers' = timers
          /\ calls[c].pc = "before" /\ calls'[c].pc = "done" =>
                /\ calls'[c].outcome = "switched"
                /\ tab'.notePath = calls[c].notePath]_vars

\* A call returned for the current path and an overlapping one was refused.
C13_Witness ==
    /\ calls[1].pc = "done" /\ calls[1].outcome = "same"
    /\ calls[2].pc = "done" /\ calls[2].outcome = "refused"
    /\ tab.notePath = calls[1].notePath

\* C14: the handler of entitiesReloaded goes on to the note only when the
\* note of the tab is among the reloaded ones; when that note is marked
\* isDeleted it sets noteId and notePath to null and triggers
\* tabNoteSwitched with a null notePath; when it is not deleted the fields
\* stay and no event is triggered; nothing else nulls the fields.
C14_ReactionToDeletion ==
    /\ [](reload.pc = "fetch" =>
             /\ reload.noteId.kind = "string"
             /\ reload.noteId.val[1] \in reload.reloaded)
    /\ [][/\ reload.pc = "idle" /\ reload'.pc = "fetch" =>
                /\ reload'.noteId = tab.noteId
                /\ tab' = tab
                /\ evt'.name = "none"
          /\ reload.pc = "fetch" /\ reload'.pc = "idle" =>
                IF reload.noteId.val[1] \in deleted
                  THEN /\ tab' = [notePath |-> Null, noteId |-> Null]
                       /\ evt' = [name |-> "tabNoteSwitched",
                                  notePath |-> Null]
                  ELSE tab' = tab /\ evt'.name = "none"
          /\ tab'.notePath = Null /\ tab.notePath # Null =>
                /\ reload.pc = "fetch"
                /\ reload.noteId.val[1] \in deleted]_vars

\* The deleted note of the tab was reloaded: the fields are null and the
\* event carries null.
C14_Witness ==
    /\ tab = [notePath |-> Null, noteId |-> Null]
    /\ evt = [name |-> "tabNoteSwitched", notePath |-> Null]
    /\ "A" \in deleted
    /\ reload.pc = "idle"

\* C15: a 'recent-notes' post made by the timer of a switch follows five
\* seconds during which the tab stayed on the path of that switch; the
\* timer of a switch whose path the tab left in the meantime posts nothing.
C15_PostOnlyAfterStay == posted.sent => posted.stayed

\* C17: in every state between the steps of the tab noteId and notePath are
\* both unset or both null, or noteId is the last segment of notePath.
C17_TabStateConsistency ==
    \/ tab.notePath = Unset /\ tab.noteId = Unset
    \/ tab.notePath = Null /\ tab.noteId = Null
    \/ /\ tab.notePath.kind = "string"
       /\ tab.noteId.kind = "string"
       /\ LET segs == Split(tab.notePath.val, "/")
          IN  tab.noteId.val = segs[Len(segs)]

\* The tab is on root/A/B while a call and the handler are suspended.
C17_Witness ==
    /\ tab.notePath = Str(<<"root", "/", "A", "/", "B">>)
    /\ tab.noteId = Str(<<"B">>)
    /\ calls[1].pc = "before"
    /\ reload.pc = "fetch"

\* C18: once two overlapping setNote calls have both switched the tab to
\* different paths, the tab is on the path of the call made last.
C18_LastIssuedWins ==
    /\ Len(issued) = 2
    /\ \A c \in CallSlots : calls[c].pc = "done" /\ calls[c].outcome = "switched"
    /\ calls[1].notePath # calls[2].notePath
    /\ tab.notePath.kind = "string"
    => tab.notePath = calls[issued[2]].notePath

====
